---------------------------- MODULE Spec2Model ----------------------------
(***************************************************************************)
(* A model of the SMPC fraud-detection demo: the share generator, the      *)
(* score engine (src/services/geminiService.ts, lines 42-102) and the      *)
(* analysis gateway (src/services/geminiService.ts, lines 8-39).           *)
(*                                                                         *)
(* The program computes on JavaScript numbers, i.e. IEEE-754 binary64      *)
(* values.  They are modelled bit-exactly: a number is a sign, a 53-bit    *)
(* significand and a binary exponent, and every arithmetic operation is    *)
(* the exact result rounded to nearest, ties to even.  Significands are    *)
(* naturals too wide for one machine integer, so they are kept as          *)
(* little-endian sequences of base-2^15 digits.  The exponent range is     *)
(* not bounded (no overflow to Infinity, no subnormals): every input used  *)
(* below stays far inside the normal range.                                *)
(***************************************************************************)
EXTENDS Integers, Sequences, FiniteSets, TLC

(***************************************************************************)
(* Naturals of arbitrary width: <<d1, d2, ...>> is d1 + d2*Base + ...,     *)
(* with no leading (last) zero digit; <<>> is 0.                           *)
(***************************************************************************)
\* The(S) is the element of a one-element set.  JavaScript evaluates an
\* argument once, before the call: The({e(v) : v \in {x}}) is e(x) with x
\* evaluated once, where e(x) alone would evaluate x at every use.
The(S) == CHOOSE v \in S : TRUE

DigitBits == 15
Base == 2^DigitBits

Max(i, j) == IF i >= j THEN i ELSE j
Min(i, j) == IF i <= j THEN i ELSE j

RECURSIVE Norm(_)
Norm(a) ==
    IF a = <<>> THEN a
    ELSE IF a[Len(a)] = 0
    THEN The({ Norm(t) : t \in {SubSeq(a, 1, Len(a) - 1)} })
    ELSE a

Digit(a, i) == IF i <= Len(a) THEN a[i] ELSE 0

RECURSIVE NatFromInt(_)
NatFromInt(n) ==
    IF n = 0 THEN <<>> ELSE <<n % Base>> \o NatFromInt(n \div Base)

RECURSIVE NatToInt(_)
NatToInt(a) ==
    IF a = <<>> THEN 0 ELSE a[1] + Base * NatToInt(Tail(a))

RECURSIVE AddC(_, _, _, _)
AddC(a, b, i, c) ==
    IF i > Max(Len(a), Len(b))
    THEN (IF c = 0 THEN <<>> ELSE <<c>>)
    ELSE The({ <<s % Base>> \o AddC(a, b, i + 1, s \div Base) :
               s \in {Digit(a, i) + Digit(b, i) + c} })

NatAdd(a, b) == The({ AddC(x, y, 1, 0) : x \in {a}, y \in {b} })

RECURSIVE SubB(_, _, _, _)
SubB(a, b, i, w) ==
    IF i > Len(a) THEN <<>>
    ELSE The({ <<(d + Base) % Base>>
                  \o SubB(a, b, i + 1, IF d < 0 THEN 1 ELSE 0) :
               d \in {Digit(a, i) - Digit(b, i) - w} })

\* a - b, for a >= b
NatSub(a, b) ==
    The({ The({ Norm(d) : d \in {SubB(x, y, 1, 0)} }) : x \in {a}, y \in {b} })

RECURSIVE CmpFrom(_, _, _)
CmpFrom(a, b, i) ==
    IF i = 0 THEN 0
    ELSE IF a[i] > b[i] THEN 1
    ELSE IF a[i] < b[i] THEN -1
    ELSE CmpFrom(a, b, i - 1)

\* -1, 0 or 1 as a < b, a = b or a > b
NatCmp(a, b) ==
    The({ IF Len(x) > Len(y) THEN 1
          ELSE IF Len(x) < Len(y) THEN -1
          ELSE CmpFrom(x, y, Len(x)) : x \in {a}, y \in {b} })

RECURSIVE MulSmallC(_, _, _, _)
MulSmallC(a, k, i, c) ==
    IF i > Len(a)
    THEN (IF c = 0 THEN <<>> ELSE <<c>>)
    ELSE The({ <<s % Base>> \o MulSmallC(a, k, i + 1, s \div Base) :
               s \in {a[i] * k + c} })

\* a * k, for 0 <= k <= Base
NatMulSmall(a, k) ==
    The({ IF j = 0 THEN <<>> ELSE MulSmallC(x, j, 1, 0) :
          x \in {a}, j \in {k} })

RECURSIVE NatMul(_, _)
NatMul(a, b) ==
    IF b = <<>> \/ a = <<>> THEN <<>>
    ELSE The({ NatAdd(NatMulSmall(a, b[1]),
                      IF rest = <<>> THEN <<>> ELSE <<0>> \o rest) :
               rest \in {NatMul(a, Tail(b))} })

\* quotient and remainder of a by k, for 0 < k <= Base
RECURSIVE DivSmallR(_, _)
DivSmallR(a, k) ==
    IF a = <<>> THEN [q |-> <<>>, r |-> 0]
    ELSE The({ The({ [q |-> <<cur \div k>> \o hi.q, r |-> cur % k] :
                     cur \in {Base * hi.r + a[1]} }) :
               hi \in {DivSmallR(Tail(a), k)} })

NatDivSmall(a, k) ==
    The({ The({ [q |-> Norm(d.q), r |-> d.r] : d \in {DivSmallR(x, j)} }) :
          x \in {a}, j \in {k} })

RECURSIVE Zeros(_)
Zeros(n) == IF n = 0 THEN <<>> ELSE <<0>> \o Zeros(n - 1)

ShiftLeft(a, s) ==
    The({ IF x = <<>> THEN x
          ELSE Zeros(t \div DigitBits) \o NatMulSmall(x, 2^(t % DigitBits)) :
          x \in {a}, t \in {s} })

ShiftRight(a, s) ==
    The({ IF Len(x) <= t \div DigitBits THEN <<>>
          ELSE NatDivSmall(SubSeq(x, (t \div DigitBits) + 1, Len(x)),
                           2^(t % DigitBits)).q :
          x \in {a}, t \in {s} })

Pow2(s) == ShiftLeft(<<1>>, s)

RECURSIVE IntBitLen(_)
IntBitLen(n) == IF n = 0 THEN 0 ELSE 1 + IntBitLen(n \div 2)

BitLen(a) ==
    The({ IF x = <<>> THEN 0
          ELSE DigitBits * (Len(x) - 1) + IntBitLen(x[Len(x)]) : x \in {a} })

(***************************************************************************)
(* IEEE-754 binary64.  [neg, man, exp] is (-1)^neg * man * 2^exp, man a    *)
(* natural of exactly Precision bits; zero is man = <<>>, exp = 0, and     *)
(* keeps its sign.                                                         *)
(***************************************************************************)
Precision == 53

\* n * 2^e rounded to nearest, ties to even
RoundUp(neg, q, up, e) ==
    The({ IF BitLen(q2) > Precision
          THEN [neg |-> neg, man |-> ShiftRight(q2, 1), exp |-> e + 1]
          ELSE [neg |-> neg, man |-> q2, exp |-> e] :
          q2 \in {IF up THEN NatAdd(q, <<1>>) ELSE q} })

RoundBits(neg, n, e, b) ==
    IF b <= Precision
    THEN [neg |-> neg, man |-> ShiftLeft(n, Precision - b),
          exp |-> e - (Precision - b)]
    ELSE The({ The({ RoundUp(neg, q, c > 0 \/ (c = 0 /\ q[1] % 2 = 1),
                             e + b - Precision) :
                     c \in {NatCmp(NatSub(n, ShiftLeft(q, b - Precision)),
                                   Pow2(b - Precision - 1))} }) :
               q \in {ShiftRight(n, b - Precision)} })

RoundNat(neg, n, e) ==
    The({ IF m = <<>> THEN [neg |-> neg, man |-> <<>>, exp |-> 0]
          ELSE The({ RoundBits(neg, m, e, b) : b \in {BitLen(m)} }) :
          m \in {n} })

IsZero(x) == x.man = <<>>
Zero == [neg |-> FALSE, man |-> <<>>, exp |-> 0]
Neg(x) == [x EXCEPT !.neg = ~x.neg]

\* an integer |n| < 2^31 as a number (exact)
FromInt(n) == RoundNat(n < 0, NatFromInt(IF n < 0 THEN -n ELSE n), 0)

\* -1, 0, 1 comparing magnitudes
CmpMag(x, y) ==
    IF IsZero(x) THEN (IF IsZero(y) THEN 0 ELSE -1)
    ELSE IF IsZero(y) THEN 1
    ELSE IF x.exp > y.exp THEN 1
    ELSE IF x.exp < y.exp THEN -1
    ELSE NatCmp(x.man, y.man)

\* -1, 0, 1 as x < y, x = y (also -0 against +0), x > y
CmpV(x, y) ==
    IF IsZero(x) /\ IsZero(y) THEN 0
    ELSE IF IsZero(x) THEN (IF y.neg THEN 1 ELSE -1)
    ELSE IF IsZero(y) THEN (IF x.neg THEN -1 ELSE 1)
    ELSE IF x.neg /\ ~y.neg THEN -1
    ELSE IF ~x.neg /\ y.neg THEN 1
    ELSE IF x.neg THEN CmpMag(y, x) ELSE CmpMag(x, y)

Cmp(x, y) == The({ CmpV(a, b) : a \in {x}, b \in {y} })

Gt(x, y) == Cmp(x, y) > 0
Lt(x, y) == Cmp(x, y) < 0
Ge(x, y) == Cmp(x, y) >= 0
Le(x, y) == Cmp(x, y) <= 0
NumEq(x, y) == Cmp(x, y) = 0

\* x * y
Mul(x, y) ==
    The({ RoundNat(a.neg # b.neg, NatMul(a.man, b.man), a.exp + b.exp) :
          a \in {x}, b \in {y} })

\* x + y
AddV(x, y) ==
    IF IsZero(x) /\ IsZero(y) THEN [Zero EXCEPT !.neg = x.neg /\ y.neg]
    ELSE IF IsZero(x) THEN y
    ELSE IF IsZero(y) THEN x
    ELSE The({ The({ The({
             IF x.neg = y.neg THEN RoundNat(x.neg, NatAdd(mx, my), e)
             ELSE IF c = 0 THEN Zero
             ELSE IF c > 0 THEN RoundNat(x.neg, NatSub(mx, my), e)
             ELSE RoundNat(y.neg, NatSub(my, mx), e) :
                c \in {NatCmp(mx, my)} }) :
                   mx \in {ShiftLeft(x.man, x.exp - e)},
                   my \in {ShiftLeft(y.man, y.exp - e)} }) :
               e \in {Min(x.exp, y.exp)} })

Add(x, y) == The({ AddV(a, b) : a \in {x}, b \in {y} })

\* x - y
Sub(x, y) == Add(x, Neg(y))

\* extra quotient bits of a division, enough to round it correctly
GuardBits == 64

\* x / k for an integer 0 < k <= Base
DivInt(x, k) ==
    The({ RoundNat(a.neg,
                   NatAdd(ShiftLeft(d.q, 1), IF d.r # 0 THEN <<1>> ELSE <<>>),
                   a.exp - GuardBits - 1) :
          a \in {x}, d \in {NatDivSmall(ShiftLeft(x.man, GuardBits), k)} })

\* the number a decimal literal n / k denotes (0.05 is Dec(5, 100))
Dec(n, k) == DivInt(FromInt(n), k)

\* Math.min
MathMin(x, y) ==
    The({ IF Lt(b, a) THEN b ELSE a : a \in {x}, b \in {y} })

(***************************************************************************)
(* Decimal strings.  [neg, digits, frac] is the text of digits / 10^frac   *)
(* with frac fraction digits and a leading "-" when neg: what toFixed      *)
(* produces, what an <input type="number"> holds, what parseFloat reads.   *)
(***************************************************************************)
DecText(neg, digits, frac) == [neg |-> neg, digits |-> digits, frac |-> frac]

\* Number.prototype.toFixed(f), for |x| < 10^21: the integer n with
\* n / 10^f nearest to |x|, the larger one when two are as near; "-" kept
\* for every x < 0, also when n = 0
ToFixed(x, f) ==
    The({ The({ The({ DecText(a.neg /\ ~IsZero(a), NatToInt(n), f) :
                n \in {IF a.exp >= 0 THEN ShiftLeft(scaled, a.exp)
                       ELSE ShiftRight(NatAdd(ShiftLeft(scaled, 1),
                                              Pow2(-a.exp)),
                                       1 - a.exp)} }) :
             scaled \in {NatMulSmall(a.man, 10^f)} }) :
          a \in {x} })

\* parseFloat of a decimal string: the nearest number
ParseFloat(t) ==
    The({ [Dec(s.digits, 10^s.frac) EXCEPT !.neg = s.neg] : s \in {t} })

(***************************************************************************)
(* Math.random(): a number in [0, 1).  The draws the model takes: the      *)
(* least and the greatest possible draw and values in between, some with   *)
(* a full 53-bit significand.                                              *)
(***************************************************************************)
LeastDraw == RoundNat(FALSE, <<1>>, -Precision)
GreatestDraw == RoundNat(FALSE, NatSub(Pow2(Precision), <<1>>), -Precision)
RandomDraws ==
    {Zero, LeastDraw, Dec(1, 3), Dec(1, 2), Dec(9, 10), GreatestDraw}

(***************************************************************************)
(* ShareGenerator                                                          *)
(***************************************************************************)
SharesOf(a, b, c) == [partyA |-> a, partyB |-> b, partyC |-> c]

\* a faulty generateShares: shareB drawn from the whole value, not from what
\* shareA leaves
generateSharesOfWhole(value, r1, r2) ==
    The({ The({ The({ SharesOf(shareA, shareB, shareC) :
                      shareC \in {Sub(Sub(value, shareA), shareB)} }) :
                shareB \in {Mul(r2, value)} }) :
          shareA \in {Mul(r1, value)} })

\* a faulty generateShares: shareA is a random mask not scaled by the value
generateSharesUnscaled(value, r1, r2) ==
    The({ The({ The({ SharesOf(shareA, shareB, shareC) :
                      shareC \in {Sub(Sub(value, shareA), shareB)} }) :
                shareB \in {Mul(r2, Sub(value, shareA))} }) :
          shareA \in {r1} })

\* generateShares(value), r1 and r2 the two Math.random() draws in order
generateShares(value, r1, r2) ==
    The({ The({ The({ SharesOf(shareA, shareB, shareC) :
                      shareC \in {Sub(Sub(value, shareA), shareB)} }) :
                shareB \in {Mul(r2, Sub(value, shareA))} }) :
          shareA \in {Mul(r1, value)} })

(***************************************************************************)
(* Strings are sequences of UTF-16 code units.                             *)
(***************************************************************************)
Latin1Max == 255

B64Char(i) ==
    IF i < 26 THEN 65 + i
    ELSE IF i < 52 THEN 97 + (i - 26)
    ELSE IF i < 62 THEN 48 + (i - 52)
    ELSE IF i = 62 THEN 43 ELSE 47

RECURSIVE Base64(_)
Base64(b) ==
    IF Len(b) = 0 THEN <<>>
    ELSE IF Len(b) = 1
    THEN <<B64Char(b[1] \div 4), B64Char((b[1] % 4) * 16), 61, 61>>
    ELSE IF Len(b) = 2
    THEN <<B64Char(b[1] \div 4), B64Char((b[1] % 4) * 16 + b[2] \div 16),
           B64Char((b[2] % 16) * 4), 61>>
    ELSE <<B64Char(b[1] \div 4), B64Char((b[1] % 4) * 16 + b[2] \div 16),
           B64Char((b[2] % 16) * 4 + b[3] \div 64), B64Char(b[3] % 64)>>
         \o The({ Base64(t) : t \in {SubSeq(b, 4, Len(b))} })

\* btoa(s): [ok |-> FALSE] stands for the InvalidCharacterError it throws
\* on a code unit above 0xFF
Btoa(s) ==
    IF \E i \in 1..Len(s) : s[i] > Latin1Max
    THEN [ok |-> FALSE, text |-> <<>>]
    ELSE [ok |-> TRUE, text |-> Base64(s)]

\* s.substr(0, n)
Substr0(s, n) == SubSeq(s, 1, Min(n, Len(s)))

ToUpperCase(s) ==
    The({ [i \in 1..Len(t) |->
             IF t[i] >= 97 /\ t[i] <= 122 THEN t[i] - 32 ELSE t[i]] :
          t \in {s} })

(***************************************************************************)
(* ScoreEngine                                                             *)
(***************************************************************************)
NORMAL == "NORMAL"
FRAUD == "FRAUD"
PENDING == "PENDING"
FraudStatus == {NORMAL, FRAUD, PENDING}

\* deviceScore, line 73; rDev the Math.random() draw
DeviceScore(rDev) ==
    ParseFloat(ToFixed(Add(Mul(rDev, Dec(9, 10)), Dec(5, 100)), 2))

\* a faulty amountWeight: 7000 itself takes the high weight
AmountWeightInclusive(amount) ==
    IF Ge(amount, FromInt(7000)) THEN Dec(7, 10) ELSE Dec(3, 10)

\* a faulty amountWeight: the two weights swapped
AmountWeightSwapped(amount) ==
    IF Gt(amount, FromInt(7000)) THEN Dec(3, 10) ELSE Dec(7, 10)

\* amountWeight, line 76
AmountWeight(amount) ==
    IF Gt(amount, FromInt(7000)) THEN Dec(7, 10) ELSE Dec(3, 10)

deviceWeight == Dec(5, 10)

\* normalizedAmount, rawFraudScore and fraudScore, lines 79-81
FraudScore(amount, deviceScore) ==
    The({ The({ MathMin(ParseFloat(ToFixed(rawFraudScore, 3)), FromInt(1)) :
                rawFraudScore \in
                    {Add(Mul(normalizedAmount, AmountWeight(amount)),
                         Mul(deviceScore, deviceWeight))} }) :
          normalizedAmount \in {MathMin(DivInt(amount, 10000), FromInt(1))} })

\* a faulty classification: 9500 itself is flagged
ClassifyInclusive(amount, fraudScore) ==
    IF Ge(amount, FromInt(9500))
       \/ (Gt(fraudScore, Dec(8, 10)) /\ Gt(amount, FromInt(1000)))
    THEN FRAUD ELSE NORMAL

\* status, lines 83-86
Classify(amount, fraudScore) ==
    IF Gt(amount, FromInt(9500))
       \/ (Gt(fraudScore, Dec(8, 10)) /\ Gt(amount, FromInt(1000)))
    THEN FRAUD ELSE NORMAL

Thrown(e) == [kind |-> "throw", error |-> e]
Returned(v) == [kind |-> "return", value |-> v]

\* processTransaction(email, amount).  rId, rDev, rA, rB are the four
\* Math.random() draws in the order the code takes them, now the clock
\* new Date() reads.  The id keeps its draw in place of the draw's
\* base-36 digits, the timestamp the clock reading in place of its ISO
\* text.
processTransaction(email, amount, rId, rDev, rA, rB, now) ==
    The({
        LET id == [prefix |-> "TXN-", draw |-> rId]
            userId == <<85, 83, 82, 45>> \o ToUpperCase(Substr0(b64.text, 8))
        IN  IF ~b64.ok THEN Thrown("InvalidCharacterError")
        ELSE The({ The({ Returned(
                      [id |-> id, userId |-> userId, email |-> email,
                       amount |-> amount, deviceScore |-> deviceScore,
                       status |-> Classify(amount, fraudScore),
                       fraudScore |-> fraudScore,
                       shares |-> generateShares(fraudScore, rA, rB),
                       timestamp |-> now]) :
                         fraudScore \in {FraudScore(amount, deviceScore)} }) :
                   deviceScore \in {DeviceScore(rDev)} }) :
        b64 \in {Btoa(email)} })

(***************************************************************************)
(* State.  Each component is exercised by a caller of its own: pc is the   *)
(* caller's position.                                                      *)
(***************************************************************************)
VARIABLES
    pc,        \* position of the caller
    value,     \* generateShares: the argument
    shares,    \* generateShares: the value returned
    email,     \* processTransaction: the identity string
    amount,    \* processTransaction: the amount as typed, a decimal string
    clock,     \* the clock new Date() reads
    result,    \* processTransaction: what the call produced
    txn,       \* analyzeFraudCase: the argument
    requests,  \* the generateContent requests issued, in order
    response,  \* the settled promise of generateContent
    aiResponse,\* analyzeFraudCase: the value its promise resolved with
    console,   \* what console.error has logged
    transactions,      \* App: the history, newest first
    isProcessing,      \* App: the processing flag
    visualizingShares, \* App: what the overlay shows, or null
    activeAnalysis,    \* App: the analysis shown, or null
    runs       \* App: the invocations of handleAnalyze not yet settled

vars == <<pc, value, shares, email, amount, clock, result,
          txn, requests, response, aiResponse, console,
          transactions, isProcessing, visualizingShares, activeAnalysis,
          runs>>
engineVars == <<value, shares, email, amount, clock, result>>
gatewayVars == <<txn, requests, response, aiResponse, console>>
appVars == <<transactions, isProcessing, visualizingShares, activeAnalysis,
             runs>>

Null == [null |-> TRUE]

\* App as useState constructs it, lines 124-127, no handleAnalyze running
AppIdle ==
    /\ transactions = <<>>
    /\ isProcessing = FALSE
    /\ visualizingShares = Null
    /\ activeAnalysis = Null
    /\ runs = <<>>

\* bounds of the model
MaxClock == 1

GatewayIdle ==
    /\ txn = Null
    /\ requests = <<>>
    /\ response = Null
    /\ aiResponse = Null
    /\ console = <<>>

(***************************************************************************)
(* The caller of generateShares                                            *)
(***************************************************************************)
ShareValues ==
    {Zero, Dec(1, 1000), Dec(490, 1000), Dec(700, 1000), FromInt(1),
     FromInt(1000), FromInt(1000000), FromInt(10000000),
     Mul(FromInt(10000), FromInt(10000)),
     Mul(FromInt(1000000), FromInt(1000000))}

InitShares ==
    /\ pc = "shares"
    /\ value \in ShareValues
    /\ shares = Null
    /\ email = <<>>
    /\ amount = DecText(FALSE, 0, 0)
    /\ clock = 0
    /\ result = Null
    /\ GatewayIdle
    /\ AppIdle

CallGenerateShares ==
    /\ pc = "shares"
    /\ \E r1 \in RandomDraws, r2 \in RandomDraws :
          shares' = generateShares(value, r1, r2)
    /\ pc' = "sharesDone"
    /\ UNCHANGED <<value, email, amount, clock, result>>
    /\ UNCHANGED gatewayVars
    /\ UNCHANGED appVars

NextShares == CallGenerateShares

SpecShares == InitShares /\ [][NextShares]_vars

(***************************************************************************)
(* The caller of processTransaction, as handleAnalyze calls it             *)
(* (src/App.tsx, lines 154 and 161): processTransaction(email,             *)
(* parseFloat(amount)).                                                    *)
(***************************************************************************)
Emails ==
    { <<97, 64, 98, 46, 99, 111>>,          \* a@b.co
      <<122, 111, 233, 64, 120, 46, 105, 111>>,  \* zo(e-acute)@x.io, Latin-1
      <<1080, 64, 98, 46, 99, 111>> }       \* Cyrillic i, U+0438

Amounts ==
    { DecText(FALSE, 0, 0), DecText(FALSE, 50, 0), DecText(FALSE, 500, 0),
      DecText(FALSE, 1000, 0), DecText(FALSE, 100001, 2),
      DecText(FALSE, 5000, 0), DecText(FALSE, 7000, 0),
      DecText(FALSE, 700001, 2), DecText(FALSE, 9000, 0),
      DecText(FALSE, 9500, 0), DecText(FALSE, 950001, 2),
      DecText(FALSE, 10000, 0), DecText(FALSE, 25000, 0),
      DecText(TRUE, 500, 0), DecText(TRUE, 10000, 0) }

IdDraws == {Dec(1, 3), GreatestDraw}
ShareDraws == {Zero, Dec(1, 3), GreatestDraw}

InitEngine ==
    /\ pc = "engine"
    /\ email \in Emails
    /\ amount \in Amounts
    /\ clock \in 0..MaxClock
    /\ result = Null
    /\ value = Zero
    /\ shares = Null
    /\ GatewayIdle
    /\ AppIdle

CallProcessTransaction ==
    /\ pc = "engine"
    /\ \E rId \in IdDraws, rDev \in RandomDraws,
          rA \in ShareDraws, rB \in ShareDraws :
          \E amtNum \in {ParseFloat(amount)} :
             result' = processTransaction(email, amtNum,
                                          rId, rDev, rA, rB, clock)
    /\ pc' = "engineDone"
    /\ UNCHANGED <<value, shares, email, amount, clock>>
    /\ UNCHANGED gatewayVars
    /\ UNCHANGED appVars

NextEngine == CallProcessTransaction

SpecEngine == InitEngine /\ [][NextEngine]_vars

(***************************************************************************)
(* AnalysisGateway.  JSON values: an object is [type |-> "object",         *)
(* fields |-> f], f a function from its keys to its values (strings        *)
(* here); null is [type |-> "null"].                                       *)
(***************************************************************************)
JObject(f) == [type |-> "object", fields |-> f]
JNull == [type |-> "null"]

Undefined == [undefined |-> TRUE]

\* What response.text can be when generateContent resolves: undefined (no
\* text part), the empty string, text that is no JSON, and JSON documents
\* that do or do not have the shape asked for.
ResponseTexts ==
    { "",
      "Service unavailable",
      "Here is the analysis: {\"summary\":\"s\"}",
      "null",
      "{}",
      "{\"summary\":\"s\"}",
      "{\"summary\":\"s\",\"threatLevel\":\"Critical\",\"recommendation\":\"r\"}",
      "{\"summary\":\"s\",\"threatLevel\":\"Low\",\"recommendation\":\"r\"}",
      "{\"summary\":\"s\",\"threatLevel\":\"Medium\",\"recommendation\":\"r\"}",
      "{\"summary\":\"s\",\"threatLevel\":\"High\",\"recommendation\":\"r\"}" }

Answer(level) ==
    JObject([summary |-> "s", threatLevel |-> level, recommendation |-> "r"])

\* JSON.parse on the texts above: the value, or a SyntaxError
JSONParse(text) ==
    CASE text = "null" -> Returned(JNull)
      [] text = "{}" -> Returned(JObject(<<>>))
      [] text = "{\"summary\":\"s\"}" -> Returned(JObject([summary |-> "s"]))
      [] text = "{\"summary\":\"s\",\"threatLevel\":\"Critical\",\"recommendation\":\"r\"}"
            -> Returned(Answer("Critical"))
      [] text = "{\"summary\":\"s\",\"threatLevel\":\"Low\",\"recommendation\":\"r\"}"
            -> Returned(Answer("Low"))
      [] text = "{\"summary\":\"s\",\"threatLevel\":\"Medium\",\"recommendation\":\"r\"}"
            -> Returned(Answer("Medium"))
      [] text = "{\"summary\":\"s\",\"threatLevel\":\"High\",\"recommendation\":\"r\"}"
            -> Returned(Answer("High"))
      [] OTHER -> Thrown("SyntaxError")

\* the request of lines 10-27: the model asked, the four transaction
\* details the prompt embeds, the response type asked for
Request(t) ==
    [model |-> "gemini-3-flash-preview",
     amount |-> t.amount, deviceScore |-> t.deviceScore,
     fraudScore |-> t.fraudScore, status |-> t.status,
     responseMimeType |-> "application/json"]

\* a faulty fallback: 0.7 itself counts as High
FallbackInclusive(t) ==
    JObject([summary |->
                "Automated AI analysis unavailable. Relying on baseline SMPC scores.",
             threatLevel |->
                IF Ge(t.fraudScore, Dec(7, 10)) THEN "High" ELSE "Low",
             recommendation |-> "Manual verification required."])

\* the value the catch block returns, lines 33-37
Fallback(t) ==
    JObject([summary |->
                "Automated AI analysis unavailable. Relying on baseline SMPC scores.",
             threatLevel |->
                IF Gt(t.fraudScore, Dec(7, 10)) THEN "High" ELSE "Low",
             recommendation |-> "Manual verification required."])

\* line 29: response.text || "{}"
TextOrEmptyObject(text) ==
    IF text = Undefined \/ text = [str |-> ""] THEN "{}" ELSE text.str

\* lines 9-10: analyzeFraudCase starts and awaits generateContent
AnalyzeCall ==
    /\ pc = "analyze"
    /\ requests' = Append(requests, Request(txn))
    /\ pc' = "awaiting"
    /\ UNCHANGED <<txn, response, aiResponse, console>>
    /\ UNCHANGED engineVars
    /\ UNCHANGED appVars

\* the remote service: the promise of generateContent rejects
RemoteRejects ==
    /\ pc = "awaiting"
    /\ response' = [kind |-> "rejected", error |-> "ApiError"]
    /\ pc' = "settled"
    /\ UNCHANGED <<txn, requests, aiResponse, console>>
    /\ UNCHANGED engineVars
    /\ UNCHANGED appVars

\* the remote service: the promise resolves, with some text or none
RemoteResolves ==
    /\ pc = "awaiting"
    /\ \E text \in {Undefined} \cup {[str |-> t] : t \in ResponseTexts} :
          response' = [kind |-> "resolved", text |-> text]
    /\ pc' = "settled"
    /\ UNCHANGED <<txn, requests, aiResponse, console>>
    /\ UNCHANGED engineVars
    /\ UNCHANGED appVars

\* a faulty continuation: a failed attempt is tried once more
AnalyzeResumeRetrying ==
    /\ pc = "settled"
    /\ LET parsed == IF response.kind = "resolved"
                     THEN JSONParse(TextOrEmptyObject(response.text))
                     ELSE Thrown(response.error)
       IN  IF parsed.kind = "return"
           THEN /\ aiResponse' = parsed.value
                /\ pc' = "analyzed"
                /\ UNCHANGED <<console, requests>>
           ELSE IF Len(requests) < 2
           THEN /\ requests' = Append(requests, Request(txn))
                /\ pc' = "awaiting"
                /\ UNCHANGED <<console, aiResponse>>
           ELSE /\ console' = Append(console,
                       <<"Gemini analysis failed:", parsed.error>>)
                /\ aiResponse' = Fallback(txn)
                /\ pc' = "analyzed"
                /\ UNCHANGED requests
    /\ UNCHANGED <<txn, response>>
    /\ UNCHANGED engineVars
    /\ UNCHANGED appVars

\* lines 29-38: analyzeFraudCase resumes with the settled promise: a
\* rejection, or a SyntaxError of JSON.parse, is caught, logged and
\* answered by the fallback; what JSON.parse returns is returned as it is
AnalyzeResume ==
    /\ pc = "settled"
    /\ LET parsed == IF response.kind = "resolved"
                     THEN JSONParse(TextOrEmptyObject(response.text))
                     ELSE Thrown(response.error)
       IN  IF parsed.kind = "return"
           THEN /\ aiResponse' = parsed.value
                /\ UNCHANGED console
           ELSE /\ console' = Append(console,
                       <<"Gemini analysis failed:", parsed.error>>)
                /\ aiResponse' = Fallback(txn)
    /\ pc' = "analyzed"
    /\ UNCHANGED <<txn, requests, response>>
    /\ UNCHANGED engineVars
    /\ UNCHANGED appVars

(***************************************************************************)
(* The caller of analyzeFraudCase: any Transaction, flagged or not.        *)
(***************************************************************************)
GatewayMillis == {0, 300, 699, 700, 701, 850, 1000}

GatewayTxns ==
    { [id |-> [prefix |-> "TXN-", draw |-> Zero],
       userId |-> <<85, 83, 82, 45>>,
       email |-> <<97, 64, 98, 46, 99, 111>>,
       amount |-> FromInt(a), deviceScore |-> Dec(d, 100),
       status |-> s, fraudScore |-> Dec(n, 1000), timestamp |-> 0] :
      a \in {500, 9600}, d \in {5, 95}, s \in FraudStatus,
      n \in GatewayMillis }

InitGateway ==
    /\ pc = "analyze"
    /\ txn \in GatewayTxns
    /\ requests = <<>>
    /\ response = Null
    /\ aiResponse = Null
    /\ console = <<>>
    /\ value = Zero
    /\ shares = Null
    /\ email = <<>>
    /\ amount = DecText(FALSE, 0, 0)
    /\ clock = 0
    /\ result = Null
    /\ AppIdle

NextGateway ==
    \/ AnalyzeCall
    \/ RemoteRejects
    \/ RemoteResolves
    \/ AnalyzeResume

SpecGateway == InitGateway /\ [][NextGateway]_vars

(***************************************************************************)
(* App (src/App.tsx): the form and handleAnalyze.  Each invocation of      *)
(* handleAnalyze is a record of runs: the line it waits at, the email and  *)
(* amount it closed over, and its local result.  A run that returned or    *)
(* whose promise rejected leaves runs.  The clock is not advanced: every   *)
(* record takes the timestamp 0.                                           *)
(***************************************************************************)
NoAmount == [empty |-> TRUE]

MaxSubmissions == 2

AppEmails ==
    { <<97, 64, 98, 46, 99, 111>>,          \* a@b.co
      <<1080, 64, 98, 46, 99, 111>> }       \* Cyrillic i, U+0438

AppAmounts == { DecText(FALSE, 5000, 0), DecText(FALSE, 9600, 0) }

\* device draws giving the device scores 0.90 and 0.95
AppDeviceDraws == {Dec(944, 1000), GreatestDraw}
AppIdDraws == {Dec(1, 3)}
AppShareDraws == {Dec(1, 3)}

\* what the promise of generateContent can settle with: a rejection, no
\* text, text that is no JSON, an answer of the shape asked for
RemoteOutcomes ==
    {[kind |-> "rejected", error |-> "ApiError"]}
        \cup {[kind |-> "resolved", text |-> x] :
                 x \in {Undefined, [str |-> "Service unavailable"],
                        [str |-> "{\"summary\":\"s\",\"threatLevel\":\"High\",\"recommendation\":\"r\"}"]}}

\* analyzeFraudCase(t) once generateContent has settled with outcome,
\* lines 29-38: the value returned and what console.error logged, if
\* anything
analyzeFraudCase(t, outcome) ==
    LET parsed == IF outcome.kind = "resolved"
                  THEN JSONParse(TextOrEmptyObject(outcome.text))
                  ELSE Thrown(outcome.error)
    IN  IF parsed.kind = "return"
        THEN [value |-> parsed.value, logged |-> <<>>]
        ELSE [value |-> Fallback(t),
              logged |-> << <<"Gemini analysis failed:", parsed.error>> >>]

Remove(seq, i) == SubSeq(seq, 1, i - 1) \o SubSeq(seq, i + 1, Len(seq))

InitApp ==
    /\ pc = "app"
    /\ email = <<>>
    /\ amount = NoAmount
    /\ clock = 0
    /\ value = Zero
    /\ shares = Null
    /\ result = Null
    /\ GatewayIdle
    /\ AppIdle

\* line 239: the user edits the email field
ChangeEmail ==
    /\ pc = "app"
    /\ email' \in (AppEmails \cup {<<>>}) \ {email}
    /\ UNCHANGED <<pc, value, shares, amount, clock, result>>
    /\ UNCHANGED gatewayVars
    /\ UNCHANGED appVars

\* line 250: the user edits the amount field
ChangeAmount ==
    /\ pc = "app"
    /\ amount' \in (AppAmounts \cup {NoAmount}) \ {amount}
    /\ UNCHANGED <<pc, value, shares, email, clock, result>>
    /\ UNCHANGED gatewayVars
    /\ UNCHANGED appVars

\* a faulty form: the submit button is never disabled
SubmitAlwaysEnabled == TRUE

\* line 269: the submit button is disabled while isProcessing
SubmitEnabled == ~isProcessing

\* lines 149-160: the form is submitted; handleAnalyze runs to its first
\* await, the 800 ms timer
Submit ==
    /\ pc = "app"
    /\ SubmitEnabled
    /\ Len(runs) + Len(transactions) < MaxSubmissions
    /\ IF email = <<>> \/ amount = NoAmount
       THEN UNCHANGED <<isProcessing, visualizingShares, runs>>
       ELSE \E amtNum \in {ParseFloat(amount)} :
               /\ isProcessing' = TRUE
               /\ visualizingShares' =
                     [amount |-> amtNum, shares |-> Null, val |-> Null]
               /\ runs' = Append(runs, [at |-> "split", email |-> email,
                                        amtNum |-> amtNum, result |-> Null])
    /\ UNCHANGED <<pc, value, shares, email, amount, clock, result>>
    /\ UNCHANGED gatewayVars
    /\ UNCHANGED <<transactions, activeAnalysis>>

\* lines 161-165: the 800 ms timer fired; processTransaction is called.
\* Nothing catches what it throws: the promise of handleAnalyze rejects
\* there and the run ends.
SplitPhase(i) ==
    /\ runs[i].at = "split"
    /\ \E rId \in AppIdDraws, rDev \in AppDeviceDraws,
          rA \in AppShareDraws, rB \in AppShareDraws :
          \E r \in {processTransaction(runs[i].email, runs[i].amtNum,
                                       rId, rDev, rA, rB, clock)} :
             /\ IF r.kind = "throw"
                THEN /\ runs' = Remove(runs, i)
                     /\ UNCHANGED visualizingShares
                ELSE /\ runs' = [runs EXCEPT ![i].at = "mpc",
                                             ![i].result = r.value]
                     /\ visualizingShares' =
                           [amount |-> runs[i].amtNum,
                            shares |-> r.value.shares, val |-> Null]
    /\ UNCHANGED <<pc, value, shares, email, amount, clock, result>>
    /\ UNCHANGED gatewayVars
    /\ UNCHANGED <<transactions, isProcessing, activeAnalysis>>

\* lines 168-171: the 1500 ms timer fired
MpcPhase(i) ==
    /\ runs[i].at = "mpc"
    /\ visualizingShares' =
          [amount |-> runs[i].amtNum, shares |-> runs[i].result.shares,
           val |-> runs[i].result.fraudScore]
    /\ runs' = [runs EXCEPT ![i].at = "reconstruct"]
    /\ UNCHANGED <<pc, value, shares, email, amount, clock, result>>
    /\ UNCHANGED gatewayVars
    /\ UNCHANGED <<transactions, isProcessing, activeAnalysis>>

\* a faulty update: the new record goes to the end of the history
PrependLast(r, prev) == Append(prev, r)

\* line 173: prev => [result, ...prev]
Prepend(r, prev) == <<r>> \o prev

\* a faulty gate: 0.6 itself is analysed
NeedsAnalysisInclusive(r) ==
    r.status = FRAUD \/ Ge(r.fraudScore, Dec(6, 10))

\* line 175
NeedsAnalysis(r) ==
    r.status = FRAUD \/ Gt(r.fraudScore, Dec(6, 10))

\* lines 182-185, after setActiveAnalysis of line 177 or 179: handleAnalyze
\* returns
Finish(i, analysis) ==
    /\ activeAnalysis' = analysis
    /\ visualizingShares' = Null
    /\ isProcessing' = FALSE
    /\ email' = <<>>
    /\ amount' = NoAmount
    /\ runs' = Remove(runs, i)

\* a faulty handler: the overlay and the flag are cleared before the
\* analysis is awaited
StartAnalysisEager(i) ==
    /\ requests' = Append(requests, Request(runs[i].result))
    /\ runs' = [runs EXCEPT ![i].at = "awaiting"]
    /\ visualizingShares' = Null
    /\ isProcessing' = FALSE
    /\ UNCHANGED <<activeAnalysis, email, amount>>

\* line 176: analyzeFraudCase(result) runs to its await of generateContent
\* (lines 9-10), and handleAnalyze awaits it
StartAnalysis(i) ==
    /\ requests' = Append(requests, Request(runs[i].result))
    /\ runs' = [runs EXCEPT ![i].at = "awaiting"]
    /\ UNCHANGED <<activeAnalysis, visualizingShares, isProcessing,
                   email, amount>>

\* lines 173-185: the 1000 ms timer fired
Completion(i) ==
    /\ runs[i].at = "reconstruct"
    /\ transactions' = Prepend(runs[i].result, transactions)
    /\ IF NeedsAnalysis(runs[i].result)
       THEN StartAnalysis(i)
       ELSE Finish(i, Null) /\ UNCHANGED requests
    /\ UNCHANGED <<pc, value, shares, clock, result>>
    /\ UNCHANGED <<txn, response, aiResponse, console>>

\* lines 176-185: generateContent settled; analyzeFraudCase returns and
\* handleAnalyze goes on to its end
AnalysisSettles(i) ==
    /\ runs[i].at = "awaiting"
    /\ \E outcome \in RemoteOutcomes :
          \E a \in {analyzeFraudCase(runs[i].result, outcome)} :
             /\ console' = console \o a.logged
             /\ Finish(i, [txn |-> runs[i].result, analysis |-> a.value])
    /\ UNCHANGED <<pc, value, shares, clock, result>>
    /\ UNCHANGED <<txn, requests, response, aiResponse>>
    /\ UNCHANGED transactions

NextApp ==
    \/ ChangeEmail
    \/ ChangeAmount
    \/ Submit
    \/ \E i \in DOMAIN runs : SplitPhase(i)
    \/ \E i \in DOMAIN runs : MpcPhase(i)
    \/ \E i \in DOMAIN runs : Completion(i)
    \/ \E i \in DOMAIN runs : AnalysisSettles(i)

SpecApp == InitApp /\ [][NextApp]_vars

\* Timers fire, and generateContent settles: every await of handleAnalyze
\* is resumed.
SpecAppLive ==
    /\ SpecApp
    /\ WF_vars(\E i \in DOMAIN runs : SplitPhase(i))
    /\ WF_vars(\E i \in DOMAIN runs : MpcPhase(i))
    /\ WF_vars(\E i \in DOMAIN runs : Completion(i))
    /\ WF_vars(\E i \in DOMAIN runs : AnalysisSettles(i))

\* handleAnalyze as App calls it, and analyzeFraudCase called directly
SpecGate ==
    (InitApp \/ InitGateway) /\ [][NextApp \/ NextGateway]_vars

(***************************************************************************)
(* The whole model: any of the four callers.                              *)
(***************************************************************************)
Init == InitShares \/ InitEngine \/ InitGateway \/ InitApp

Next == NextShares \/ NextEngine \/ NextGateway \/ NextApp

Spec == Init /\ [][Next]_vars

(***************************************************************************)
(* Properties of generateShares, under SpecShares                          *)
(***************************************************************************)
SumOf(s) == Add(Add(s.partyA, s.partyB), s.partyC)

\* |x| > 10^-9, decided exactly: man * 2^exp * 10^9 > 1
ExceedsNano(x) ==
    /\ ~IsZero(x)
    /\ \/ x.exp >= 0
       \/ NatCmp(NatMulSmall(NatMulSmall(NatMulSmall(x.man, 1000), 1000),
                             1000),
                 Pow2(-x.exp)) > 0

SumWithinNano(s, v) == ~ExceedsNano(Sub(SumOf(s), v))

SharesNonNegative(s) ==
    Ge(s.partyA, Zero) /\ Ge(s.partyB, Zero) /\ Ge(s.partyC, Zero)

\* C1 as stated: for every value >= 0 and every pair of draws, the three
\* shares sum to the value within 1e-9 and each share is >= 0.
C1_AnyValueWithinNano ==
    (pc = "sharesDone" /\ Ge(value, Zero))
        => (SumWithinNano(shares, value) /\ SharesNonNegative(shares))

\* C1 amended: for every value >= 0 each share is >= 0; for 0 <= value <=
\* 10^6 (every fraud score lies there) the shares sum to the value within
\* 1e-9.
C1_SharesOfValue ==
    (pc = "sharesDone" /\ Ge(value, Zero))
        => /\ SharesNonNegative(shares)
           /\ Le(value, FromInt(1000000)) => SumWithinNano(shares, value)

\* a split of 10^6 whose shares are all positive and whose sum is rounded:
\* it differs from the value, by less than 1e-9
C1_Witness ==
    /\ pc = "sharesDone"
    /\ value = FromInt(1000000)
    /\ Gt(shares.partyA, Zero) /\ Gt(shares.partyB, Zero)
    /\ Gt(shares.partyC, Zero)
    /\ ~NumEq(SumOf(shares), value)
    /\ SumWithinNano(shares, value)

\* C8: generateShares(0) is exactly {partyA: 0, partyB: 0, partyC: 0},
\* whatever the two draws.
C8_ZeroSplitsToZeros ==
    (pc = "sharesDone" /\ value = Zero) => shares = SharesOf(Zero, Zero, Zero)

C8_Witness ==
    pc = "sharesDone" /\ value = Zero /\ shares = SharesOf(Zero, Zero, Zero)

(***************************************************************************)
(* Properties of processTransaction, under SpecEngine.  The inputs and     *)
(* the scores are read as exact decimals: the amount in cents, the device  *)
(* score in hundredths, the fraud score in thousandths.                    *)
(***************************************************************************)
HasReturned == pc = "engineDone" /\ result.kind = "return"
Txn == result.value

\* the amount typed, in cents
Cents == (IF amount.neg THEN -1 ELSE 1) * amount.digits * 10^(2 - amount.frac)

\* x in thousandths, sign included; x is n / 1000 exactly when
\* IsMillis(x)
Millis(x) == (IF x.neg THEN -1 ELSE 1) * ToFixed(x, 3).digits
IsMillis(x) == ParseFloat(ToFixed(x, 3)) = x

\* x in hundredths; x is k / 100 exactly when IsHundredths(x)
Hundredths(x) == (IF x.neg THEN -1 ELSE 1) * ToFixed(x, 2).digits
IsHundredths(x) == ParseFloat(ToFixed(x, 2)) = x

\* C3: for every amount, negative ones too, the fraud score is in [0, 1]
\* and the device score in [0.05, 0.95].
C3_ScoresInRange ==
    HasReturned
        => /\ Ge(Txn.fraudScore, Zero) /\ Le(Txn.fraudScore, FromInt(1))
           /\ Ge(Txn.deviceScore, Dec(5, 100))
           /\ Le(Txn.deviceScore, Dec(95, 100))

\* C4: status is FRAUD exactly when amount > 9500 or (fraudScore > 0.8 and
\* amount > 1000), NORMAL otherwise, never PENDING; amount 10000 is FRAUD.
C4_StatusRule ==
    HasReturned
        => /\ IsMillis(Txn.fraudScore)
           /\ Txn.status =
                 (IF Cents > 950000
                     \/ (Millis(Txn.fraudScore) > 800 /\ Cents > 100000)
                  THEN FRAUD ELSE NORMAL)
           /\ Txn.status # PENDING
           /\ Cents = 1000000 => Txn.status = FRAUD

C4_Witness ==
    /\ HasReturned
    /\ Cents > 100000 /\ Cents <= 950000
    /\ Txn.status = FRAUD

\* C5: for 0 <= amount <= 1000 the status is NORMAL whatever the device
\* draw; at amount 500 the fraud score is at most 0.49.
C5_SmallAmountsNormal ==
    (HasReturned /\ Cents >= 0 /\ Cents <= 100000)
        => /\ Txn.status = NORMAL
           /\ Cents = 50000 => Millis(Txn.fraudScore) <= 490

C5_Witness ==
    /\ HasReturned
    /\ Cents = 50000
    /\ Txn.deviceScore = Dec(95, 100)
    /\ Txn.fraudScore = Dec(490, 1000)
    /\ Txn.status = NORMAL

\* C7: for every finite amount >= 0 and every non-empty identity string,
\* also one with characters outside Latin-1, processTransaction returns a
\* Transaction with its shares and raises nothing.
C7_NeverRaises ==
    (pc = "engineDone" /\ Cents >= 0 /\ Len(email) > 0)
        => /\ result.kind = "return"
           /\ "shares" \in DOMAIN result.value

\* 10^7 times the exact raw score of an amount of c cents and a device
\* score of k hundredths: min(c / 10^6, 1) * w + (k / 100) * 0.5, with
\* w = 0.7 above 7000 and 0.3 up to 7000
RawTimes10M(c, k) ==
    Min(c, 1000000) * (IF c > 700000 THEN 7 ELSE 3) + 50000 * k

\* C9: for amount >= 0 the fraud score is the raw score rounded to three
\* decimals (to either neighbour when it lies halfway) and clamped to
\* [0, 1], and the shares are a split of exactly that fraud score.
C9_FraudScoreFormula ==
    (HasReturned /\ Cents >= 0)
        => /\ IsMillis(Txn.fraudScore)
           /\ IsHundredths(Txn.deviceScore)
           /\ \E raw \in {RawTimes10M(Cents, Hundredths(Txn.deviceScore))} :
                 \E n \in {raw \div 10000, raw \div 10000 + 1} :
                    /\ 10000 * n - raw <= 5000
                    /\ raw - 10000 * n <= 5000
                    /\ Millis(Txn.fraudScore) = Min(n, 1000)
           /\ \E rA \in ShareDraws, rB \in ShareDraws :
                 Txn.shares = generateShares(Txn.fraudScore, rA, rB)

C9_Witness ==
    /\ HasReturned
    /\ Cents = 700000
    /\ Txn.deviceScore = Dec(5, 100)
    /\ Txn.fraudScore = Dec(235, 1000)
    /\ SumWithinNano(Txn.shares, Txn.fraudScore)

(***************************************************************************)
(* Properties of analyzeFraudCase, under SpecGateway                       *)
(***************************************************************************)
ThreatLevels == {"Low", "Medium", "High"}

\* an AnalysisResponse: an object with the three fields, threatLevel one
\* of the three levels
WellFormed(v) ==
    /\ v.type = "object"
    /\ {"summary", "threatLevel", "recommendation"} \subseteq DOMAIN v.fields
    /\ v.fields.threatLevel \in ThreatLevels

\* the remote call failed, or returned no text, empty text, text that is
\* no JSON, or JSON that is no AnalysisResponse
RemoteUnusable(r) ==
    \/ r.kind = "rejected"
    \/ /\ r.kind = "resolved"
       /\ \/ r.text = Undefined
          \/ r.text.str = ""
          \/ JSONParse(r.text.str).kind = "throw"
          \/ ~WellFormed(JSONParse(r.text.str).value)

\* C2: whatever the remote call does, analyzeFraudCase returns a
\* well-formed AnalysisResponse, and the fallback whenever the remote
\* outcome is unusable.
C2_AlwaysWellFormed ==
    pc = "analyzed"
        => /\ WellFormed(aiResponse)
           /\ RemoteUnusable(response) => aiResponse = Fallback(txn)

TookFallback == pc = "analyzed" /\ console # <<>>

\* C6: on the fallback path threatLevel is "High" when the fraud score is
\* above 0.7 and "Low" otherwise (0.7 itself gives Low, Medium never
\* comes), and recommendation is the fixed text; amount, device score and
\* status play no part.
C6_FallbackThreatLevel ==
    TookFallback
        => /\ aiResponse.fields.threatLevel =
                 (IF Millis(txn.fraudScore) > 700 THEN "High" ELSE "Low")
           /\ aiResponse.fields.recommendation = "Manual verification required."
           /\ DOMAIN aiResponse.fields =
                 {"summary", "threatLevel", "recommendation"}

C6_Witness ==
    /\ TookFallback
    /\ txn.fraudScore = Dec(700, 1000)
    /\ txn.status = FRAUD
    /\ aiResponse.fields.threatLevel = "Low"

\* C10: one invocation of analyzeFraudCase issues at most one request;
\* after a failed attempt none follows and the fallback is returned.
C10_AtMostOneRequest ==
    /\ Len(requests) <= 1
    /\ pc = "analyzed" => Len(requests) = 1
    /\ TookFallback => aiResponse = Fallback(txn)

C10_Witness ==
    /\ pc = "analyzed"
    /\ response.kind = "rejected"
    /\ requests = <<Request(txn)>>
    /\ aiResponse = Fallback(txn)

(***************************************************************************)
(* Properties of handleAnalyze, under SpecApp                              *)
(***************************************************************************)
\* the number of runs that wait at a line
RunsAt(at) == Cardinality({i \in DOMAIN runs : runs[i].at = at})

Awaiting == \E i \in DOMAIN runs : runs[i].at = "awaiting"

\* C11: a submission that gets as far as line 173 puts exactly one record,
\* its own result, in front of the history, there and nowhere else; no step
\* of any submission or analysis, the fallback included, changes, removes
\* or reorders the records already there.
C11_HistoryGrowsInFront ==
    [][ /\ \/ transactions' = transactions
           \/ /\ Len(transactions') = Len(transactions) + 1
              /\ Tail(transactions') = transactions
              /\ \E i \in DOMAIN runs :
                    /\ runs[i].at = "reconstruct"
                    /\ Head(transactions') = runs[i].result
        /\ (transactions' # transactions)
              <=> (RunsAt("reconstruct")' < RunsAt("reconstruct"))
        /\ (isProcessing /\ ~isProcessing')
              => (transactions' # transactions) # Awaiting
      ]_vars

\* two different records in the history, the older one behind the newer,
\* and the analysis of the newer one fell back
C11_Witness ==
    /\ runs = <<>>
    /\ Len(transactions) = 2
    /\ transactions[1] # transactions[2]
    /\ activeAnalysis # Null
    /\ activeAnalysis.analysis = Fallback(transactions[1])
    /\ console # <<>>

\* C12: handleAnalyze calls analyzeFraudCase for the record it has just
\* added exactly when the record's status is FRAUD or its fraud score is
\* above 0.6, and it issues a request at no other step; when neither holds
\* no request goes out and activeAnalysis becomes null.  analyzeFraudCase
\* called directly issues its request for any Transaction.
C12_AnalysedIffFlagged ==
    [][ /\ (transactions' # transactions)
              => /\ IsMillis(Head(transactions').fraudScore)
                 /\ IF \/ Head(transactions').status = FRAUD
                       \/ Millis(Head(transactions').fraudScore) > 600
                    THEN requests' =
                            Append(requests, Request(Head(transactions')))
                    ELSE requests' = requests /\ activeAnalysis' = Null
        /\ (pc = "app" /\ requests' # requests)
              => transactions' # transactions
        /\ (pc = "analyze")
              => /\ ENABLED AnalyzeCall
                 /\ pc' = "awaiting" => requests' = <<Request(txn)>>
      ]_vars

\* a record that is NORMAL with a fraud score of 0.625 is being analysed
C12_Witness ==
    /\ Len(runs) = 1
    /\ runs[1].at = "awaiting"
    /\ runs[1].result.status = NORMAL
    /\ runs[1].result.fraudScore = Dec(625, 1000)
    /\ transactions = <<runs[1].result>>
    /\ requests = <<Request(runs[1].result)>>

\* C13: the step that issues the analysis request leaves activeAnalysis,
\* the overlay and the processing flag as they are; while the request is
\* out, no step changes transactions, activeAnalysis, the overlay or the
\* flag; the step that ends the wait sets activeAnalysis to the analysis of
\* the newest record, hides the overlay and clears the flag.
C13_NoUpdateWhileAwaiting ==
    [][ /\ (requests' # requests)
              => UNCHANGED <<activeAnalysis, visualizingShares, isProcessing>>
        /\ (Awaiting /\ Awaiting')
              => UNCHANGED <<transactions, activeAnalysis,
                             visualizingShares, isProcessing>>
        /\ (Awaiting /\ ~Awaiting')
              => /\ transactions' = transactions
                 /\ activeAnalysis' # Null
                 /\ activeAnalysis'.txn = Head(transactions)
                 /\ visualizingShares' = Null
                 /\ isProcessing' = FALSE
      ]_vars

\* the second submission waits for its analysis: the overlay is up, the
\* flag set, the first analysis still shown, and the user has typed
C13_Witness ==
    /\ Awaiting
    /\ Len(transactions) = 2
    /\ isProcessing
    /\ visualizingShares # Null
    /\ activeAnalysis # Null
    /\ activeAnalysis.txn = transactions[2]
    /\ email # <<>>

\* C14, under SpecAppLive: a submission that has set isProcessing gets to
\* the point where isProcessing is false and the overlay hidden.
C14_SubmissionFinishes ==
    isProcessing ~> (~isProcessing /\ visualizingShares = Null)

\* C15: at most one run of handleAnalyze is under way, and only while
\* isProcessing; so at most one analysis request is out, and with no run
\* under way an activeAnalysis that is not null is that of the newest
\* record.
C15_OneSubmissionInFlight ==
    /\ Len(runs) <= 1
    /\ runs # <<>> => isProcessing
    /\ RunsAt("awaiting") <= 1
    /\ (runs = <<>> /\ activeAnalysis # Null)
          => /\ transactions # <<>>
             /\ activeAnalysis.txn = Head(transactions)

\* idle after two submissions, the analysis shown is that of the newer
\* record and not of the older
C15_Witness ==
    /\ runs = <<>>
    /\ ~isProcessing
    /\ Len(transactions) = 2
    /\ activeAnalysis # Null
    /\ activeAnalysis.txn = transactions[1]
    /\ activeAnalysis.txn # transactions[2]
    /\ console = <<>>

=============================================================================
